---- MODULE Spec2Model ----
(***************************************************************************)
(* Candy machine statechart (src/src/candy_machine.ts) run by an xstate v4 *)
(* interpreter with predictableActionArguments: true.                      *)
(*                                                                         *)
(* Library semantics the statechart definition relies on:                  *)
(*  - actions of a transition run in the declared order (transition        *)
(*    actions, then the entry actions of the target), each assign seeing   *)
(*    the context left by the previous one;                                *)
(*  - an exception thrown by an action propagates out of send() and the    *)
(*    interpreter keeps the state and context it had before the event;     *)
(*  - `always` transitions are taken right after the event's transition,   *)
(*    before the observer (onTransition) is notified;                      *)
(*  - entering a top-level state of type 'final' stops the interpreter; a  *)
(*    stopped interpreter ignores send() (it only logs a warning).         *)
(***************************************************************************)
EXTENDS Integers, Sequences, FiniteSets

\* ---- bounds of the model ------------------------------------------------
MaxSales == 2   \* HALF_TURN sales are explored up to this many
MaxOther == 2   \* payloads besides 0 and the valid coins: -MaxOther..MaxOther

\* ---- enums (candy_machine.ts:15-44) --------------------------------------
State == {"NO_COIN", "INVALID_COIN", "VALID_COIN", "SLOT_CLOSED", "SHUTDOWN"}

Event == {"HALF_TURN", "ADD_COIN", "REMOVE_COIN", "SHUTDOWN", "TAMPER"}

Action == {"DISPENSE_CANDY", "RECORD_COIN", "CLEAR_COIN", "RECORD_SALE",
           "LOG_SALES", "SHUT_DOWN", "INVALID_ACTION"}

\* ---- guards (candy_machine.ts:75-85) -------------------------------------
ValidCoins == {50, 100, 200}

checkHasCoin_Positive(currentCoinValue) == currentCoinValue > 0

checkHasCoin(currentCoinValue) == currentCoinValue # 0

checkIsValidCoin_OnlySmall(currentCoinValue) == currentCoinValue \in {50, 100}

checkIsValidCoin_Positive(currentCoinValue) == currentCoinValue > 0

checkIsValidCoin(currentCoinValue) == currentCoinValue \in ValidCoins

Guards_VALID_COIN_AnyCoin(context) == checkHasCoin(context.currentCoinValue)

Guards_VALID_COIN(context) ==
    checkHasCoin(context.currentCoinValue) /\ checkIsValidCoin(context.currentCoinValue)

Guards_INVALID_COIN_NotNegated(context) ==
    checkHasCoin(context.currentCoinValue) /\ checkIsValidCoin(context.currentCoinValue)

Guards_INVALID_COIN(context) ==
    checkHasCoin(context.currentCoinValue) /\ ~checkIsValidCoin(context.currentCoinValue)

Guards(name, context) ==
    IF name = "VALID_COIN" THEN Guards_VALID_COIN(context)
    ELSE Guards_INVALID_COIN(context)

\* ---- actions (candy_machine.ts:151-204) ----------------------------------
\* An action maps (context, event) to the new context and the thrown value
\* ("none" when it returns normally; the code throws String(event.type)).
Ok(context) == [context |-> context, error |-> "none"]

Throw(context, event) == [context |-> context, error |-> event.type]

RECORD_COIN_AnyEvent(context, event) ==
    Ok([context EXCEPT !.currentCoinValue =
            IF event.type = "ADD_COIN" THEN event.value ELSE 0])

RECORD_COIN_RejectsZero(context, event) ==
    IF event.type = "ADD_COIN" /\ event.value # 0
    THEN Ok([context EXCEPT !.currentCoinValue = event.value])
    ELSE Throw(context, event)

RECORD_COIN(context, event) ==
    IF event.type = "ADD_COIN"
    THEN Ok([context EXCEPT !.currentCoinValue = event.value])
    ELSE Throw(context, event)

CLEAR_COIN_Keeps(context, event) == Ok(context)

CLEAR_COIN(context, event) == Ok([context EXCEPT !.currentCoinValue = 0])

RECORD_SALE_CountOnly(context, event) ==
    Ok([context EXCEPT !.numSales = context.numSales + 1])

RECORD_SALE(context, event) ==
    Ok([context EXCEPT !.totalValue = context.totalValue + context.currentCoinValue,
                       !.numSales = context.numSales + 1])

LOG_SALES(context, event) == Ok(context)

DISPENSE_CANDY(context, event) == Ok(context)

SHUT_DOWN(context, event) == Ok(context)

INVALID_ACTION_Silent(context, event) == Ok(context)

INVALID_ACTION(context, event) == Throw(context, event)

Actions(a, context, event) ==
    CASE a = "RECORD_COIN"    -> RECORD_COIN(context, event)
      [] a = "CLEAR_COIN"     -> CLEAR_COIN(context, event)
      [] a = "RECORD_SALE"    -> RECORD_SALE(context, event)
      [] a = "LOG_SALES"      -> LOG_SALES(context, event)
      [] a = "DISPENSE_CANDY" -> DISPENSE_CANDY(context, event)
      [] a = "SHUT_DOWN"      -> SHUT_DOWN(context, event)
      [] a = "INVALID_ACTION" -> INVALID_ACTION(context, event)
      [] OTHER                -> Ok(context)   \* root entry: console.log only

\* ---- states and transitions (candy_machine.ts:88-149) --------------------
\* A handler is [defined, target, actions]; target "" means no target (the
\* state is not left and its entry actions do not run again).
NoHandler == [defined |-> FALSE, target |-> "", actions |-> <<>>]

On(target, actions) == [defined |-> TRUE, target |-> target, actions |-> actions]

NO_COIN_on_SaleOnTurn(e) ==
    CASE e = "HALF_TURN" -> On("SLOT_CLOSED", <<"RECORD_SALE">>)
      [] e = "ADD_COIN"  -> On("", <<"RECORD_COIN">>)
      [] e = "SHUTDOWN"  -> On("SHUTDOWN", <<>>)
      [] e = "TAMPER"    -> On("", <<"INVALID_ACTION">>)
      [] OTHER           -> NoHandler

NO_COIN_on_FreeCandy(e) ==
    CASE e = "HALF_TURN" -> On("SLOT_CLOSED", <<"DISPENSE_CANDY">>)
      [] e = "ADD_COIN"  -> On("", <<"RECORD_COIN">>)
      [] e = "SHUTDOWN"  -> On("SHUTDOWN", <<>>)
      [] e = "TAMPER"    -> On("", <<"INVALID_ACTION">>)
      [] OTHER           -> NoHandler

NO_COIN_on(e) ==
    CASE e = "HALF_TURN" -> On("SLOT_CLOSED", <<>>)
      [] e = "ADD_COIN"  -> On("", <<"RECORD_COIN">>)
      [] e = "SHUTDOWN"  -> On("SHUTDOWN", <<>>)
      [] e = "TAMPER"    -> On("", <<"INVALID_ACTION">>)
      [] OTHER           -> NoHandler

NO_COIN_always == << [target |-> "VALID_COIN",   cond |-> "VALID_COIN"],
                     [target |-> "INVALID_COIN", cond |-> "INVALID_COIN"] >>

INVALID_COIN_on_TurnHandled(e) ==
    CASE e = "REMOVE_COIN" -> On("NO_COIN", <<"CLEAR_COIN">>)
      [] e = "HALF_TURN"   -> On("SLOT_CLOSED", <<>>)
      [] e = "TAMPER"      -> On("", <<"INVALID_ACTION">>)
      [] OTHER             -> NoHandler

INVALID_COIN_on_NoRemove(e) ==
    CASE e = "TAMPER"      -> On("", <<"INVALID_ACTION">>)
      [] OTHER             -> NoHandler

INVALID_COIN_on(e) ==
    CASE e = "REMOVE_COIN" -> On("NO_COIN", <<"CLEAR_COIN">>)
      [] e = "TAMPER"      -> On("", <<"INVALID_ACTION">>)
      [] OTHER             -> NoHandler

VALID_COIN_on_ClearFirst(e) ==
    CASE e = "HALF_TURN"   -> On("SLOT_CLOSED", <<"CLEAR_COIN", "RECORD_SALE", "DISPENSE_CANDY">>)
      [] e = "REMOVE_COIN" -> On("NO_COIN", <<"CLEAR_COIN">>)
      [] e = "TAMPER"      -> On("", <<"INVALID_ACTION">>)
      [] OTHER             -> NoHandler

VALID_COIN_on_NoClear(e) ==
    CASE e = "HALF_TURN"   -> On("SLOT_CLOSED", <<"RECORD_SALE", "DISPENSE_CANDY">>)
      [] e = "REMOVE_COIN" -> On("NO_COIN", <<"CLEAR_COIN">>)
      [] e = "TAMPER"      -> On("", <<"INVALID_ACTION">>)
      [] OTHER             -> NoHandler

VALID_COIN_on(e) ==
    CASE e = "HALF_TURN"   -> On("SLOT_CLOSED", <<"RECORD_SALE", "DISPENSE_CANDY", "CLEAR_COIN">>)
      [] e = "REMOVE_COIN" -> On("NO_COIN", <<"CLEAR_COIN">>)
      [] e = "TAMPER"      -> On("", <<"INVALID_ACTION">>)
      [] OTHER             -> NoHandler

SLOT_CLOSED_on_Stay(e) ==
    CASE e = "HALF_TURN" -> On("", <<>>)
      [] e = "TAMPER"    -> On("", <<"INVALID_ACTION">>)
      [] OTHER           -> NoHandler

SLOT_CLOSED_on(e) ==
    CASE e = "HALF_TURN" -> On("NO_COIN", <<>>)
      [] e = "TAMPER"    -> On("", <<"INVALID_ACTION">>)
      [] OTHER           -> NoHandler

SHUTDOWN_on(e) == On("", <<"INVALID_ACTION">>)

SHUTDOWN_entry_NoLog == <<"SHUT_DOWN">>

SHUTDOWN_entry == <<"LOG_SALES", "SHUT_DOWN">>

IsFinal(s) == s = "SHUTDOWN"

States_on(s, e) ==
    CASE s = "NO_COIN"      -> NO_COIN_on(e)
      [] s = "INVALID_COIN" -> INVALID_COIN_on(e)
      [] s = "VALID_COIN"   -> VALID_COIN_on(e)
      [] s = "SLOT_CLOSED"  -> SLOT_CLOSED_on(e)
      [] s = "SHUTDOWN"     -> SHUTDOWN_on(e)

States_always(s) == IF s = "NO_COIN" THEN NO_COIN_always ELSE <<>>

States_entry(s) == IF s = "SHUTDOWN" THEN SHUTDOWN_entry ELSE <<>>

\* ---- transition resolution (xstate, driven by the table above) -----------
\* Runs the actions in list order; stops at the first one that throws.
RECURSIVE RunActions(_, _, _)
RunActions(list, context, event) ==
    IF list = <<>>
    THEN [context |-> context, error |-> "none", executed |-> <<>>]
    ELSE LET r == Actions(Head(list), context, event)
         IN  IF r.error # "none"
             THEN [context |-> context, error |-> r.error, executed |-> <<>>]
             ELSE LET rest == RunActions(Tail(list), r.context, event)
                  IN  [context |-> rest.context, error |-> rest.error,
                       executed |-> <<Head(list)>> \o rest.executed]

ResolveAlways_Skip(s, context, event) ==
    [state |-> s, context |-> context, error |-> "none", executed |-> <<>>, hops |-> 0]

\* Takes the first `always` transition whose guard is true, enters its target,
\* and repeats from there until no guard is true (or a final state is reached).
RECURSIVE ResolveAlways(_, _, _)
ResolveAlways(s, context, event) ==
    LET cands == States_always(s)
        open  == {i \in 1..Len(cands) : Guards(cands[i].cond, context)}
    IN  IF IsFinal(s) \/ open = {}
        THEN [state |-> s, context |-> context, error |-> "none",
              executed |-> <<>>, hops |-> 0]
        ELSE LET first == CHOOSE i \in open : \A j \in open : i <= j
                 t     == cands[first].target
                 r     == RunActions(States_entry(t), context, event)
             IN  IF r.error # "none"
                 THEN [state |-> s, context |-> context, error |-> r.error,
                       executed |-> r.executed, hops |-> 0]
                 ELSE LET n == ResolveAlways(t, r.context, event)
                      IN  [state |-> n.state, context |-> n.context,
                           error |-> n.error,
                           executed |-> r.executed \o n.executed,
                           hops |-> n.hops + 1]

\* One event processed to quiescence: handler lookup, transition actions,
\* entry actions of the target, then the `always` cascade.
Transition(s, context, event) ==
    LET h    == States_on(s, event.type)
        t    == IF h.defined /\ h.target # "" THEN h.target ELSE s
        acts == IF ~h.defined THEN <<>>
                ELSE IF h.target = "" THEN h.actions
                ELSE h.actions \o States_entry(t)
        r    == RunActions(acts, context, event)
    IN  IF r.error # "none"
        THEN [state |-> s, context |-> context, error |-> r.error,
              executed |-> r.executed, hops |-> 0]
        ELSE LET n == ResolveAlways(t, r.context, event)
             IN  [state |-> n.state, context |-> n.context, error |-> n.error,
                  executed |-> r.executed \o n.executed, hops |-> n.hops]

\* ---- interpreter (candy_machine.ts:207-225, 239-275) ---------------------
VARIABLES
    status,      \* interpreter: "NotStarted", "Running" or "Stopped"
    state,       \* current state value of the interpreter
    context,     \* current context of the interpreter
    currState,   \* state last reported to the onTransition observer
    lastEvent,   \* the event of the last send ( type "" before any send )
    lastError,   \* what the last start/send threw ("none" if it returned)
    executed,    \* actions run to completion by the last start/send
    hops,        \* `always` transitions taken by the last start/send
    pre,         \* status, state and context before the last start/send
    effects      \* how often each console action has run so far

vars == <<status, state, context, currState, lastEvent, lastError, executed,
          hops, pre, effects>>

InitialContext ==
    [currentCoinValue |-> 0, totalValue |-> 0, numSales |-> 0, lastDispensedAt |-> 0]

Payloads == ValidCoins \cup (-MaxOther .. MaxOther)

Events ==
    {[type |-> e] : e \in Event \ {"ADD_COIN"}}
    \cup {[type |-> "ADD_COIN", value |-> v] : v \in Payloads}

ConsoleActions == {"DISPENSE_CANDY", "LOG_SALES", "SHUT_DOWN"}

Count(seq, a) == Cardinality({i \in 1..Len(seq) : seq[i] = a})

Tally(seq) == [a \in ConsoleActions |-> effects[a] + Count(seq, a)]

Snapshot == [status |-> status, state |-> state, context |-> context]

Init ==
    /\ status = "NotStarted"
    /\ state = "NO_COIN"
    /\ context = InitialContext
    /\ currState = "undefined"
    /\ lastEvent = [type |-> ""]
    /\ lastError = "none"
    /\ executed = <<>>
    /\ hops = 0
    /\ pre = [status |-> "NotStarted", state |-> "NO_COIN", context |-> InitialContext]
    /\ effects = [a \in ConsoleActions |-> 0]

\* candyMachine.start(): root entry action, then the initial state is settled
\* and reported to the observer.
Start ==
    /\ status = "NotStarted"
    /\ LET r == ResolveAlways("NO_COIN", context, [type |-> "xstate.init"])
       IN  /\ state' = r.state
           /\ context' = r.context
           /\ currState' = r.state
           /\ executed' = <<"ROOT_ENTRY">> \o r.executed
           /\ hops' = r.hops
           /\ effects' = Tally(r.executed)
           /\ status' = IF IsFinal(r.state) THEN "Stopped" ELSE "Running"
    /\ lastEvent' = [type |-> "xstate.init"]
    /\ lastError' = "none"
    /\ pre' = Snapshot

\* candyMachine.send(event)
Send(event) ==
    /\ status # "NotStarted"
    /\ lastEvent' = event
    /\ pre' = Snapshot
    /\ IF status = "Stopped"
       THEN \* a stopped service ignores the event
            /\ lastError' = "none"
            /\ executed' = <<>>
            /\ hops' = 0
            /\ UNCHANGED <<status, state, context, currState, effects>>
       ELSE LET r == Transition(state, context, event)
            IN  /\ r.context.numSales <= MaxSales
                /\ lastError' = r.error
                /\ executed' = r.executed
                /\ hops' = r.hops
                /\ effects' = Tally(r.executed)
                /\ IF r.error # "none"
                   THEN UNCHANGED <<status, state, context, currState>>
                   ELSE /\ state' = r.state
                        /\ context' = r.context
                        /\ currState' = r.state
                        /\ status' = IF IsFinal(r.state) THEN "Stopped" ELSE "Running"

Next ==
    \/ Start
    \/ \E event \in Events : Send(event)

Spec == Init /\ [][Next]_vars

\* ---- the action functions on their own --------------------------------
\* Every function of Actions applied to every context and event of the bounded
\* sets, also the pairs the transition table never produces.
Contexts ==
    [currentCoinValue : Payloads, totalValue : {0, 100}, numSales : 0..1,
     lastDispensedAt : {0}]

ActionInit ==
    /\ status = "NotStarted"
    /\ state = "NO_COIN"
    /\ context \in Contexts
    /\ currState = "undefined"
    /\ lastEvent = [type |-> ""]
    /\ lastError = "none"
    /\ executed = <<>>
    /\ hops = 0
    /\ pre = Snapshot
    /\ effects = [a \in ConsoleActions |-> 0]

\* Actions[a](context, event): an assign replaces the context by its result;
\* a throw leaves it as it was.
Apply(a, event) ==
    LET r == Actions(a, context, event)
    IN  /\ r.context.numSales <= MaxSales
        /\ pre' = Snapshot
        /\ lastEvent' = event
        /\ lastError' = r.error
        /\ executed' = <<a>>
        /\ context' = r.context
        /\ UNCHANGED <<status, state, currState, hops, effects>>

ActionNext == \E a \in Action, event \in Events : Apply(a, event)

ActionSpec == ActionInit /\ [][ActionNext]_vars

TypeOK ==
    /\ status \in {"NotStarted", "Running", "Stopped"}
    /\ state \in State
    /\ context.numSales \in 0..MaxSales
    /\ lastError \in Event \cup {"none"}

\* ---- properties ----------------------------------------------------------
\* The last operation was send(kind) on a running interpreter settled in s.
SentIn(s, kind) ==
    pre.status = "Running" /\ pre.state = s /\ lastEvent.type = kind

TotalsKept ==
    /\ context.totalValue = pre.context.totalValue
    /\ context.numSales = pre.context.numSales

\* C1: ADD_COIN{v} with v in {50, 100, 200}, sent in NO_COIN, settles in
\* VALID_COIN with currentCoinValue = v and totalValue, numSales unchanged.
C1_AddValidCoin ==
    \A v \in {50, 100, 200} :
        (SentIn("NO_COIN", "ADD_COIN") /\ lastEvent.value = v)
            => /\ lastError = "none"
               /\ state = "VALID_COIN"
               /\ context.currentCoinValue = v
               /\ TotalsKept

C1_Witness ==
    /\ SentIn("NO_COIN", "ADD_COIN") /\ lastEvent.value = 200
    /\ state = "VALID_COIN" /\ context.currentCoinValue = 200
    /\ context.numSales > 0

\* C2: ADD_COIN{v} with v nonzero and not in {50, 100, 200}, sent in NO_COIN,
\* settles in INVALID_COIN with currentCoinValue = v and totalValue, numSales
\* unchanged.
C2_AddInvalidCoin ==
    (/\ SentIn("NO_COIN", "ADD_COIN")
     /\ lastEvent.value # 0
     /\ lastEvent.value \notin {50, 100, 200})
        => /\ lastError = "none"
           /\ state = "INVALID_COIN"
           /\ context.currentCoinValue = lastEvent.value
           /\ TotalsKept

C2_Witness ==
    /\ SentIn("NO_COIN", "ADD_COIN") /\ lastEvent.value = 1
    /\ state = "INVALID_COIN" /\ context.currentCoinValue = 1
    /\ context.numSales > 0

\* C3: HALF_TURN sent in VALID_COIN with coin c, total t, sales n settles in
\* SLOT_CLOSED with total t + c, sales n + 1 and coin 0, the actions having run
\* in the order RECORD_SALE, DISPENSE_CANDY, CLEAR_COIN; after start,
\* ADD_COIN{100}, HALF_TURN the totals are 100 and 1.
C3_HalfTurnSells ==
    SentIn("VALID_COIN", "HALF_TURN")
        => /\ lastError = "none"
           /\ state = "SLOT_CLOSED"
           /\ context.totalValue = pre.context.totalValue + pre.context.currentCoinValue
           /\ context.numSales = pre.context.numSales + 1
           /\ context.currentCoinValue = 0
           /\ executed = <<"RECORD_SALE", "DISPENSE_CANDY", "CLEAR_COIN">>
           /\ (pre.context = [InitialContext EXCEPT !.currentCoinValue = 100]
                 => context.totalValue = 100 /\ context.numSales = 1)

C3_Witness ==
    /\ SentIn("VALID_COIN", "HALF_TURN")
    /\ pre.context = [InitialContext EXCEPT !.currentCoinValue = 100]
    /\ state = "SLOT_CLOSED"
    /\ context.totalValue = 100 /\ context.numSales = 1

\* C4: HALF_TURN sent in NO_COIN settles in SLOT_CLOSED with the whole context
\* unchanged (0, 0, 0 after a fresh start): no sale is recorded.
C4_HalfTurnNoCoin ==
    SentIn("NO_COIN", "HALF_TURN")
        => /\ lastError = "none"
           /\ state = "SLOT_CLOSED"
           /\ context = pre.context
           /\ context.currentCoinValue = 0
           /\ executed = <<>>
           /\ (pre.context = InitialContext
                 => /\ context.currentCoinValue = 0
                    /\ context.totalValue = 0
                    /\ context.numSales = 0)

C4_Witness ==
    /\ SentIn("NO_COIN", "HALF_TURN")
    /\ pre.context = InitialContext
    /\ state = "SLOT_CLOSED" /\ context = InitialContext

\* C5: REMOVE_COIN sent in VALID_COIN or INVALID_COIN settles in NO_COIN with
\* currentCoinValue = 0 and totalValue, numSales unchanged, and no automatic
\* transition fires afterwards.
C5_RemoveCoin ==
    (SentIn("VALID_COIN", "REMOVE_COIN") \/ SentIn("INVALID_COIN", "REMOVE_COIN"))
        => /\ lastError = "none"
           /\ state = "NO_COIN"
           /\ context.currentCoinValue = 0
           /\ TotalsKept
           /\ hops = 0

C5_Witness ==
    /\ SentIn("INVALID_COIN", "REMOVE_COIN")
    /\ pre.context.currentCoinValue # 0
    /\ state = "NO_COIN" /\ context.currentCoinValue = 0

\* C6: TAMPER sent in NO_COIN, INVALID_COIN, VALID_COIN or SLOT_CLOSED fails
\* with the event kind TAMPER and leaves context and state unchanged.
C6_TamperFails ==
    \A s \in {"NO_COIN", "INVALID_COIN", "VALID_COIN", "SLOT_CLOSED"} :
        SentIn(s, "TAMPER")
            => /\ lastError = "TAMPER"
               /\ context = pre.context
               /\ state = s
               /\ status = "Running"

C6_Witness ==
    /\ SentIn("VALID_COIN", "TAMPER")
    /\ lastError = "TAMPER"
    /\ state = "VALID_COIN" /\ context.currentCoinValue = 50

\* C7: once the state is SHUTDOWN, sending an event of any of the five kinds
\* fails with that event's kind, and the state remains SHUTDOWN.
C7_EventAfterShutdownFails ==
    (pre.state = "SHUTDOWN" /\ lastEvent.type \in Event)
        => /\ lastError = lastEvent.type
           /\ state = "SHUTDOWN"

\* C8: SHUTDOWN sent in NO_COIN enters SHUTDOWN with the context unchanged and
\* runs LOG_SALES then SHUT_DOWN, each exactly once over the whole run; from
\* then on the state stays SHUTDOWN and the context never changes.
C8_ShutdownEntered ==
    /\ SentIn("NO_COIN", "SHUTDOWN")
          => /\ lastError = "none"
             /\ state = "SHUTDOWN"
             /\ context = pre.context
             /\ executed = <<"LOG_SALES", "SHUT_DOWN">>
    /\ effects["LOG_SALES"] = (IF state = "SHUTDOWN" THEN 1 ELSE 0)
    /\ effects["SHUT_DOWN"] = (IF state = "SHUTDOWN" THEN 1 ELSE 0)

C8_ShutdownTerminal ==
    /\ []C8_ShutdownEntered
    /\ [][state = "SHUTDOWN"
            => /\ state' = "SHUTDOWN"
               /\ context' = context
               /\ effects' = effects]_vars

C8_Witness ==
    /\ pre.state = "SHUTDOWN" /\ lastEvent.type = "SHUTDOWN"
    /\ state = "SHUTDOWN"
    /\ context.numSales > 0
    /\ effects["LOG_SALES"] = 1 /\ effects["SHUT_DOWN"] = 1

\* C9: in VALID_COIN the currentCoinValue is one of 50, 100, 200; and when
\* NO_COIN is entered from VALID_COIN or INVALID_COIN, currentCoinValue is 0.
C9_CoinInvariant ==
    /\ state = "VALID_COIN" => context.currentCoinValue \in {50, 100, 200}
    /\ (/\ pre.status = "Running"
        /\ pre.state \in {"VALID_COIN", "INVALID_COIN"}
        /\ state = "NO_COIN")
          => context.currentCoinValue = 0

C9_Witness ==
    /\ pre.status = "Running" /\ pre.state = "VALID_COIN"
    /\ pre.context.currentCoinValue \in {50, 100, 200}
    /\ state = "NO_COIN" /\ context.currentCoinValue = 0

\* C10 as stated: currentCoinValue is never negative, whatever integer payloads
\* ADD_COIN carries.
C10_NeverNegative == context.currentCoinValue >= 0

\* C10 amended: a negative ADD_COIN payload sent in NO_COIN is recorded as it
\* is and settles in INVALID_COIN; currentCoinValue is negative in no other
\* state.
C10_NegativeOnlyInvalid ==
    /\ context.currentCoinValue < 0 => state = "INVALID_COIN"
    /\ (SentIn("NO_COIN", "ADD_COIN") /\ lastEvent.value < 0)
          => /\ state = "INVALID_COIN"
             /\ context.currentCoinValue = lastEvent.value

C10_Witness ==
    /\ SentIn("NO_COIN", "ADD_COIN") /\ lastEvent.value < 0
    /\ state = "INVALID_COIN" /\ context.currentCoinValue < 0

\* C11: an event for which the current state declares no handler is a silent
\* no-op: no failure, state and whole context unchanged, no action run.
Unhandled ==
    { <<"INVALID_COIN", "ADD_COIN">>, <<"INVALID_COIN", "HALF_TURN">>,
      <<"INVALID_COIN", "SHUTDOWN">>,
      <<"VALID_COIN", "ADD_COIN">>, <<"VALID_COIN", "SHUTDOWN">>,
      <<"SLOT_CLOSED", "ADD_COIN">>, <<"SLOT_CLOSED", "REMOVE_COIN">>,
      <<"SLOT_CLOSED", "SHUTDOWN">>,
      <<"NO_COIN", "REMOVE_COIN">> }

C11_UnhandledIsNoOp ==
    \A p \in Unhandled :
        SentIn(p[1], p[2])
            => /\ lastError = "none"
               /\ state = p[1]
               /\ context = pre.context
               /\ executed = <<>>
               /\ status = "Running"

C11_Witness ==
    /\ SentIn("INVALID_COIN", "HALF_TURN")
    /\ lastError = "none"
    /\ state = "INVALID_COIN" /\ context.currentCoinValue = -1

\* C12: hasValidCoin and hasInvalidCoin are never both true; exactly one is
\* true for a nonzero currentCoinValue and none for 0; hasValidCoin is true
\* iff the value is nonzero and in {50, 100, 200}.
C12_GuardsPartition ==
    LET c       == context.currentCoinValue
        valid   == Guards("VALID_COIN", context)
        invalid == Guards("INVALID_COIN", context)
    IN  /\ ~(valid /\ invalid)
        /\ c # 0 => (valid \/ invalid)
        /\ c = 0 => (~valid /\ ~invalid)
        /\ valid <=> (c # 0 /\ c \in {50, 100, 200})

C12_Witness ==
    /\ executed = <<"RECORD_COIN">> /\ lastEvent.type = "ADD_COIN"
    /\ context.currentCoinValue = 1
    /\ Guards("INVALID_COIN", context) /\ ~Guards("VALID_COIN", context)

\* C13: start and every send run to quiescence: at most one automatic
\* transition fires per event, the state reported to the observer is the
\* settled state, in which no automatic transition's guard is true, and
\* NO_COIN with a nonzero currentCoinValue is never a settled state.
C13_Quiescent ==
    /\ hops <= 1
    /\ status # "NotStarted" => currState = state
    /\ \A i \in 1..Len(States_always(state)) :
           ~Guards(States_always(state)[i].cond, context)
    /\ ~(state = "NO_COIN" /\ context.currentCoinValue # 0)

C13_Witness ==
    /\ SentIn("NO_COIN", "ADD_COIN") /\ lastEvent.value = 50
    /\ hops = 1
    /\ currState = "VALID_COIN" /\ state = "VALID_COIN"

\* C14: RECORD_COIN invoked with an event of another kind than ADD_COIN fails
\* with the event kind and leaves the context as it was; with an ADD_COIN
\* event it sets currentCoinValue to the payload and changes no other field.
C14_RecordCoin ==
    executed = <<"RECORD_COIN">>
        => IF lastEvent.type = "ADD_COIN"
           THEN /\ lastError = "none"
                /\ context = [pre.context EXCEPT !.currentCoinValue = lastEvent.value]
           ELSE /\ lastError = lastEvent.type
                /\ context = pre.context

C14_Witness ==
    /\ executed = <<"RECORD_COIN">>
    /\ lastEvent.type = "HALF_TURN" /\ lastError = "HALF_TURN"
    /\ context.currentCoinValue = 100 /\ context = pre.context

\* C15: ADD_COIN{0} sent in NO_COIN stays settled in NO_COIN with
\* currentCoinValue = 0: RECORD_COIN runs, no automatic transition fires and
\* no failure is signalled.
C15_AddZeroCoin ==
    (SentIn("NO_COIN", "ADD_COIN") /\ lastEvent.value = 0)
        => /\ lastError = "none"
           /\ state = "NO_COIN"
           /\ context.currentCoinValue = 0
           /\ executed = <<"RECORD_COIN">>
           /\ hops = 0

C15_Witness ==
    /\ SentIn("NO_COIN", "ADD_COIN") /\ lastEvent.value = 0
    /\ state = "NO_COIN" /\ executed = <<"RECORD_COIN">>

\* C16: HALF_TURN sent in SLOT_CLOSED settles in NO_COIN with the whole
\* context unchanged and currentCoinValue still 0, so the next HALF_TURN
\* cannot sell without a new ADD_COIN.
C16_ReopenSlot ==
    SentIn("SLOT_CLOSED", "HALF_TURN")
        => /\ lastError = "none"
           /\ state = "NO_COIN"
           /\ context = pre.context
           /\ context.currentCoinValue = 0
           /\ executed = <<>>
           /\ hops = 0

C16_Witness ==
    /\ SentIn("SLOT_CLOSED", "HALF_TURN")
    /\ state = "NO_COIN" /\ context.numSales = 1 /\ context.totalValue = 200

\* C17: numSales >= 0 and 50 * numSales <= totalValue <= 200 * numSales; the
\* totals never decrease and change only on HALF_TURN from VALID_COIN, where
\* totalValue grows by the coin sold and numSales by one.
C17_Accounting ==
    /\ context.numSales >= 0
    /\ 50 * context.numSales <= context.totalValue
    /\ context.totalValue <= 200 * context.numSales
    /\ context.totalValue >= pre.context.totalValue
    /\ context.numSales >= pre.context.numSales
    /\ IF SentIn("VALID_COIN", "HALF_TURN")
       THEN /\ context.totalValue = pre.context.totalValue + pre.context.currentCoinValue
            /\ context.numSales = pre.context.numSales + 1
            /\ pre.context.currentCoinValue \in {50, 100, 200}
       ELSE TotalsKept

C17_Witness ==
    /\ SentIn("VALID_COIN", "HALF_TURN")
    /\ context.numSales = 2 /\ context.totalValue = 250

\* C18: currentCoinValue = 0 iff the state is NO_COIN, SLOT_CLOSED or
\* SHUTDOWN; the state is INVALID_COIN iff currentCoinValue is nonzero and not
\* in {50, 100, 200}; the state is VALID_COIN iff it is in {50, 100, 200}.
C18_StateCoinCorrespondence ==
    LET c == context.currentCoinValue
    IN  /\ c = 0 <=> state \in {"NO_COIN", "SLOT_CLOSED", "SHUTDOWN"}
        /\ state = "INVALID_COIN" <=> (c # 0 /\ c \notin {50, 100, 200})
        /\ state = "VALID_COIN" <=> c \in {50, 100, 200}

C18_Witness ==
    /\ SentIn("VALID_COIN", "HALF_TURN")
    /\ state = "SLOT_CLOSED" /\ context.currentCoinValue = 0

\* C19: DISPENSE_CANDY runs only on HALF_TURN from VALID_COIN, in the same
\* transition as RECORD_SALE, so the number of DISPENSE_CANDY runs equals
\* numSales; no candy from any other state nor from TAMPER.
C19_NoFreeCandy ==
    /\ effects["DISPENSE_CANDY"] = context.numSales
    /\ Count(executed, "DISPENSE_CANDY") = Count(executed, "RECORD_SALE")
    /\ Count(executed, "DISPENSE_CANDY") > 0
          => /\ SentIn("VALID_COIN", "HALF_TURN")
             /\ Count(executed, "DISPENSE_CANDY") = 1

C19_Witness ==
    /\ SentIn("VALID_COIN", "HALF_TURN")
    /\ Count(executed, "DISPENSE_CANDY") = 1
    /\ effects["DISPENSE_CANDY"] = 2 /\ context.numSales = 2

\* C20: SHUTDOWN is entered only from NO_COIN by a SHUTDOWN event (in
\* INVALID_COIN, VALID_COIN and SLOT_CLOSED that event changes nothing), and
\* from every non-terminal settled state SHUTDOWN is at most two events away:
\* SHUTDOWN itself, or REMOVE_COIN or HALF_TURN followed by SHUTDOWN.
ShutsDown(s, c) == Transition(s, c, [type |-> "SHUTDOWN"]).state = "SHUTDOWN"

C20_ShutdownReachability ==
    /\ (state = "SHUTDOWN" /\ pre.state # "SHUTDOWN")
          => SentIn("NO_COIN", "SHUTDOWN")
    /\ \A s \in {"INVALID_COIN", "VALID_COIN", "SLOT_CLOSED"} :
           SentIn(s, "SHUTDOWN") => (state = s /\ status = "Running")
    /\ status = "Running"
          => \/ ShutsDown(state, context)
             \/ \E e \in {"REMOVE_COIN", "HALF_TURN"} :
                    LET r == Transition(state, context, [type |-> e])
                    IN  r.error = "none" /\ ShutsDown(r.state, r.context)

C20_Witness ==
    /\ SentIn("INVALID_COIN", "SHUTDOWN")
    /\ state = "INVALID_COIN" /\ ~ShutsDown(state, context)
    /\ ShutsDown("NO_COIN", Transition(state, context, [type |-> "REMOVE_COIN"]).context)

====
